---- MODULE Spec2Model ----
(***************************************************************************)
(* Model of archiv's embedding pipeline (lib/server/embeddings.ts,         *)
(* lib/queue-handler.ts, lib/server/backfill.ts, lib/server/assets.ts)     *)
(* and of its search fusion (lib/server/vector-search.ts).                 *)
(*                                                                         *)
(* The relational store (D1), the vector index (Vectorize) and the queue   *)
(* are state; every server function is an action, split at the awaits      *)
(* whose interleaving matters.                                             *)
(***************************************************************************)
EXTENDS Integers, Sequences, FiniteSets, TLC

NULL == "null"
\* a nullable text column that holds NULL (texts are sequences of characters)
NullText == <<NULL>>

Range(s) == {s[i] : i \in 1..Len(s)}
Min(x, y) == IF x < y THEN x ELSE y

\* the sequences without repetition over the set S that have n elements
Orderings(S, n) ==
  {s \in [1..n -> S] : \A i, j \in 1..n : i # j => s[i] # s[j]}

(* ---------------------------------------------------------------------- *)
(* Bounds                                                                  *)
(* ---------------------------------------------------------------------- *)
\* messages the queue accepts before send() starts to throw
MaxSends == 1
\* messages one handleEmbeddingQueue invocation receives
MaxBatch == 2
\* deliveries the queue makes of one message before it dead-letters it
MaxDeliveries == 3
\* files uploaded over the life of the system
MaxUploads == 2

(* ---------------------------------------------------------------------- *)
(* Fixed inputs: who uploads what                                          *)
(* ---------------------------------------------------------------------- *)
Orgs == {"orgA", "orgB"}
TagIds == {"t1"}
AssetIds == {"a1", "a2", "b1"}
Folders == {"f1"}

\* the tenant whose member uploads the file that gets this id
OrgOf(a) == IF a = "b1" THEN "orgB" ELSE "orgA"
\* the folder the file is uploaded into
FolderOf(a) == IF a = "a1" THEN "f1" ELSE NULL
\* file.type of the upload; a mime type is the sequence of its parts, so
\* that startsWith can be computed
MimeOf(a) == IF a = "a2" THEN <<"application", "/", "pdf">> ELSE <<"image", "/", "png">>
\* file.name of the upload, as a sequence of characters
FilenameOf(a) ==
  IF a = "a1" THEN <<"C", "a", "t", ".", "p", "n", "g">>
  ELSE IF a = "a2" THEN <<"d", "o", "c", ".", "p", "d", "f">>
  ELSE <<"c", "a", "t", ".", "p", "n", "g">>

CAPTION_MODEL == "@cf/unum/uform-gen2-qwen-500m"
CAPTIONABLE_TYPES ==
  { <<"image", "/", "jpeg">>, <<"image", "/", "png">>,
    <<"image", "/", "gif">>, <<"image", "/", "webp">> }
isCaptionable(mimeType) == mimeType \in CAPTIONABLE_TYPES

Statuses == {"pending", "processing", "completed", "failed"}

VARIABLES
  db,         \* assets table: id -> row
  assetTags,  \* asset_tags table: pairs <<assetId, tagId>>
  used,       \* ids nanoid has handed out
  vectors,    \* the Vectorize index: a set of vector records
  queue,      \* EMBEDDING_QUEUE: messages waiting for delivery
  nextMid,    \* number of messages sent so far + 1
  batch,      \* messages of the running handleEmbeddingQueue invocation
  consumer,   \* position and locals of the consumer inside generateAssetEmbedding
  caller,     \* the running reembedAsset / startBackfill call
  retryLog,   \* per message: the delaySeconds of every retry() call
  acked,      \* messages on which ack() was called
  sq,         \* the search request being served and what the collaborators answer
  sr,         \* what the search call did and returned
  shareLink,  \* the share_links row of one token
  visitors    \* the running getShareByToken calls

vars == <<db, assetTags, used, vectors, queue, nextMid, batch, consumer, caller, retryLog, acked, sq, sr,
          shareLink, visitors>>

Mids == 1..MaxSends

(* ---------------------------------------------------------------------- *)
(* Rows, vector records, messages                                          *)
(* ---------------------------------------------------------------------- *)
\* the row uploadAsset inserts; the embedding columns take the schema defaults
NewAsset(a) ==
  [ organizationId  |-> OrgOf(a),
    filename        |-> FilenameOf(a),
    mimeType        |-> MimeOf(a),
    altText         |-> NullText,
    description     |-> NullText,
    folderId        |-> FolderOf(a),
    aiCaption       |-> NULL,
    aiCaptionModel  |-> NULL,
    embeddingStatus |-> "pending",
    embeddingError  |-> NULL,
    embeddedAt      |-> NULL ]

\* db.update(assets).set(fields).where(eq(assets.id, a)): no row, no change
UpdateRow(d, a, row) == IF a \in DOMAIN d THEN [d EXCEPT ![a] = row] ELSE d

DeleteRows(d, ids) == [x \in (DOMAIN d) \ ids |-> d[x]]

\* asset_tags.asset_id references assets(id) ON DELETE cascade
Cascade(at, ids) == {p \in at : p[1] \notin ids}

IdleConsumer ==
  [ pc |-> "idle", asset |-> NULL, aiCaption |-> NULL, tagIds |-> <<>>, error |-> NULL,
    captionFailed |-> FALSE, captionInvoked |-> FALSE, hadVector |-> FALSE ]

IdleCaller == [ op |-> "idle", selected |-> <<>>, todo |-> <<>>, pc |-> "send" ]

\* VECTORIZE.upsert([rec]): replaces the record with the same id
UpsertAppend(v, rec) == v \cup {rec}
Upsert(v, rec) == {r \in v : r.id # rec.id} \cup {rec}

\* JSON.stringify of an array of ids: the text, token by token
RECURSIVE jsonItems(_)
jsonItems(ids) ==
  IF ids = <<>> THEN <<>>
  ELSE IF Len(ids) = 1 THEN <<ids[1]>>
  ELSE <<ids[1], ",">> \o jsonItems(Tail(ids))

jsonStringify(ids) == <<"[">> \o jsonItems(ids) \o <<"]">>

\* JSON.parse of such a text
RECURSIVE jsonParse(_)
jsonParse(text) ==
  IF text = <<>> THEN <<>>
  ELSE IF Head(text) \in {"[", "]", ","} THEN jsonParse(Tail(text))
  ELSE <<Head(text)>> \o jsonParse(Tail(text))

\* VECTORIZE.deleteByIds(ids)
DeleteByIds(v, ids) == {r \in v : r.id \notin ids}

RECURSIVE Pow2(_)
Pow2(n) == IF n = 0 THEN 1 ELSE 2 * Pow2(n - 1)

\* delaySeconds: Math.pow(2, retryCount + 1) * 10
retryDelay(retryCount) == Pow2(retryCount + 1) * 10

\* retryCount?: number is left out of the message body
Undefined == -999

\* const { assetId, retryCount = 0 } = message.body
retryCountOf(m) == IF m.retryCount = Undefined THEN 0 ELSE m.retryCount

\* no share link: viewCount has its default, maxViews is null (falsy, as 0)
NoShareLink == [viewCount |-> 0, maxViews |-> 0]
Visitors == {"v1", "v2"}
IdleVisitor == [pc |-> "idle", seen |-> NoShareLink, last |-> "none"]

NoRequest == [fn |-> "none"]
NoResponse == [fn |-> "none"]

Init ==
  /\ db = [x \in {} |-> NULL]
  /\ assetTags = {}
  /\ used = {}
  /\ vectors = {}
  /\ queue = <<>>
  /\ nextMid = 1
  /\ batch = <<>>
  /\ consumer = IdleConsumer
  /\ caller = IdleCaller
  /\ retryLog = [m \in Mids |-> <<>>]
  /\ acked = {}
  /\ sq = NoRequest
  /\ sr = NoResponse
  /\ shareLink = NoShareLink
  /\ visitors = [v \in Visitors |-> IdleVisitor]

(* ---------------------------------------------------------------------- *)
(* assets.ts                                                               *)
(* ---------------------------------------------------------------------- *)
\* uploadAsset: R2 put, then the insert; nothing is sent to the queue
UploadAsset(a) ==
  /\ a \notin used
  /\ Cardinality(used) < MaxUploads
  /\ used' = used \cup {a}
  /\ db' = [x \in (DOMAIN db) \cup {a} |-> IF x = a THEN NewAsset(a) ELSE db[x]]
  /\ UNCHANGED <<shareLink, visitors, sq, sr, assetTags, vectors, queue, nextMid, batch, consumer, caller, retryLog, acked>>

\* deleteAsset: ownership check, R2 delete, relational delete
DeleteAsset(a, org) ==
  /\ a \in DOMAIN db
  /\ db[a].organizationId = org
  /\ db' = DeleteRows(db, {a})
  /\ assetTags' = Cascade(assetTags, {a})
  /\ UNCHANGED <<shareLink, visitors, sq, sr, used, vectors, queue, nextMid, batch, consumer, caller, retryLog, acked>>

\* deleteAssets: the rows of ids that belong to the caller's tenant
DeleteAssets(ids, org) ==
  /\ \E a \in ids : a \in DOMAIN db /\ db[a].organizationId = org
  /\ db' = DeleteRows(db, {a \in ids : a \in DOMAIN db /\ db[a].organizationId = org})
  /\ assetTags' = Cascade(assetTags, {a \in ids : a \in DOMAIN db /\ db[a].organizationId = org})
  /\ UNCHANGED <<shareLink, visitors, sq, sr, used, vectors, queue, nextMid, batch, consumer, caller, retryLog, acked>>

(* ---------------------------------------------------------------------- *)
(* embeddings.ts: queueEmbedding and its callers                           *)
(* ---------------------------------------------------------------------- *)
Message(mid, a, rc, src) ==
  [ mid |-> mid, assetId |-> a, retryCount |-> rc, attempts |-> 0, src |-> src ]

\* the remaining queueEmbedding calls of the running server function
NextCall(c) ==
  IF Len(c.todo) > 1 THEN [c EXCEPT !.todo = Tail(c.todo), !.pc = "send"] ELSE IdleCaller

\* reembedAsset: the asset must belong to the caller's tenant
ReembedAsset(a, org) ==
  /\ caller.op = "idle"
  /\ a \in DOMAIN db
  /\ db[a].organizationId = org
  /\ caller' = [op |-> "reembed", selected |-> <<a>>, todo |-> <<a>>, pc |-> "send"]
  /\ UNCHANGED <<shareLink, visitors, sq, sr, assetTags, db, used, vectors, queue, nextMid, batch, consumer, retryLog, acked>>

\* the rows startBackfill selects: pending, of the tenant, LIMIT batchSize
PendingOf(org) ==
  {a \in DOMAIN db : db[a].organizationId = org /\ db[a].embeddingStatus = "pending"}

\* startBackfill: select, then queueEmbedding for each row in turn
StartBackfill(org, batchSize) ==
  /\ caller.op = "idle"
  /\ PendingOf(org) # {}
  /\ \E todo \in Orderings(PendingOf(org), Min(batchSize, Cardinality(PendingOf(org)))) :
       caller' = [op |-> "backfill", selected |-> todo, todo |-> todo, pc |-> "send"]
  /\ UNCHANGED <<shareLink, visitors, sq, sr, assetTags, db, used, vectors, queue, nextMid, batch, consumer, retryLog, acked>>

\* queueEmbedding, first await: EMBEDDING_QUEUE.send({type, assetId, timestamp})
QueueSend ==
  /\ caller.op # "idle"
  /\ caller.pc = "send"
  /\ nextMid <= MaxSends
  /\ queue' = Append(queue, Message(nextMid, Head(caller.todo), Undefined, "queueEmbedding"))
  /\ nextMid' = nextMid + 1
  /\ caller' = [caller EXCEPT !.pc = "mark"]
  /\ UNCHANGED <<shareLink, visitors, sq, sr, assetTags, db, used, vectors, batch, consumer, retryLog, acked>>

afterSendThrowsAbort(c) == IdleCaller

\* queueEmbedding throws: reembedAsset rejects, the catch inside the loop of
\* startBackfill logs and the loop goes on
afterSendThrows(c) == IF c.op = "backfill" THEN NextCall(c) ELSE IdleCaller

\* send() throws
QueueSendThrows ==
  /\ caller.op # "idle"
  /\ caller.pc = "send"
  /\ caller' = afterSendThrows(caller)
  /\ UNCHANGED <<shareLink, visitors, sq, sr, assetTags, db, used, vectors, queue, nextMid, batch, consumer, retryLog, acked>>

\* queueEmbedding, second await: set embeddingStatus = "processing"
QueueMark ==
  /\ caller.op # "idle"
  /\ caller.pc = "mark"
  /\ LET a == Head(caller.todo) IN
       db' = IF a \in DOMAIN db
             THEN UpdateRow(db, a, [db[a] EXCEPT !.embeddingStatus = "processing"])
             ELSE db
  /\ caller' = NextCall(caller)
  /\ UNCHANGED <<shareLink, visitors, sq, sr, assetTags, used, vectors, queue, nextMid, batch, consumer, retryLog, acked>>

\* a producer that fills in the optional retryCount of EmbeddingMessage
ProducerSend(a, rc) ==
  /\ nextMid <= MaxSends
  /\ queue' = Append(queue, Message(nextMid, a, rc, "producer"))
  /\ nextMid' = nextMid + 1
  /\ UNCHANGED <<shareLink, visitors, sq, sr, assetTags, db, used, vectors, batch, consumer, caller, retryLog, acked>>

(* ---------------------------------------------------------------------- *)
(* backfill.ts                                                             *)
(* ---------------------------------------------------------------------- *)
resetFailedOfAnyTenant(d, org) ==
  [a \in DOMAIN d |->
     IF d[a].embeddingStatus = "failed"
     THEN [d[a] EXCEPT !.embeddingStatus = "pending", !.embeddingError = NULL]
     ELSE d[a]]

\* update ... set embeddingStatus = pending, embeddingError = null
\* where organization_id = org and embedding_status = failed
resetFailed(d, org) ==
  [a \in DOMAIN d |->
     IF d[a].organizationId = org /\ d[a].embeddingStatus = "failed"
     THEN [d[a] EXCEPT !.embeddingStatus = "pending", !.embeddingError = NULL]
     ELSE d[a]]

\* retryFailedEmbeddings: failed -> pending for the tenant, nothing is sent
RetryFailedEmbeddings(org) ==
  /\ \E a \in DOMAIN db : db[a].embeddingStatus = "failed"
  /\ db' = resetFailed(db, org)
  /\ UNCHANGED <<shareLink, visitors, sq, sr, assetTags, used, vectors, queue, nextMid, batch, consumer, caller, retryLog, acked>>

(* ---------------------------------------------------------------------- *)
(* embeddings.ts: markEmbeddingFailed                                      *)
(* ---------------------------------------------------------------------- *)
markEmbeddingFailed(d, a, error) ==
  IF a \in DOMAIN d
  THEN UpdateRow(d, a, [d[a] EXCEPT !.embeddingStatus = "failed", !.embeddingError = error])
  ELSE d

(* ---------------------------------------------------------------------- *)
(* queue-handler.ts: handleEmbeddingQueue around generateAssetEmbedding    *)
(* ---------------------------------------------------------------------- *)
Delivered(m) == [m EXCEPT !.attempts = m.attempts + 1]

\* the queue hands the consumer a batch
Receive(k) ==
  /\ consumer.pc = "idle"
  /\ batch = <<>>
  /\ k \in 1..Min(MaxBatch, Len(queue))
  /\ batch' = [i \in 1..k |-> Delivered(queue[i])]
  /\ queue' = SubSeq(queue, k + 1, Len(queue))
  /\ consumer' = [IdleConsumer EXCEPT !.pc = "load"]
  /\ UNCHANGED <<shareLink, visitors, sq, sr, assetTags, db, used, vectors, nextMid, caller, retryLog, acked>>

Throw(c, error) == [c EXCEPT !.pc = "catch", !.error = error]

\* the loop of handleEmbeddingQueue moves on to the next message
NextMessage == IF Len(batch) > 1 THEN [IdleConsumer EXCEPT !.pc = "load"] ELSE IdleConsumer

\* generateAssetEmbedding: findFirst by id, throw when the row is absent
Load ==
  /\ consumer.pc = "load"
  /\ LET a == batch[1].assetId IN
       consumer' = IF a \in DOMAIN db
                   THEN [consumer EXCEPT !.pc = "caption", !.asset = db[a],
                                         !.aiCaption = db[a].aiCaption]
                   ELSE Throw(consumer, "Asset not found")
  /\ UNCHANGED <<shareLink, visitors, sq, sr, assetTags, db, used, vectors, queue, nextMid, batch, caller, retryLog, acked>>

needsCaptionWhenCaptionable(c) == isCaptionable(c.asset.mimeType)

\* if (!aiCaption && isCaptionable(asset.mimeType))
needsCaption(c) == c.aiCaption = NULL /\ isCaptionable(c.asset.mimeType)

captionRethrow(c) == Throw(c, "Caption generation failed")

\* the catch around the caption block: log, go on without a caption
captionCatch(c) == [c EXCEPT !.pc = "embed", !.captionFailed = TRUE]

\* the caption block is skipped
CaptionSkip ==
  /\ consumer.pc = "caption"
  /\ ~needsCaption(consumer)
  /\ consumer' = [consumer EXCEPT !.pc = "embed"]
  /\ UNCHANGED <<shareLink, visitors, sq, sr, assetTags, db, used, vectors, queue, nextMid, batch, caller, retryLog, acked>>

\* R2 get and generateCaption succeed, the caption is saved at once
CaptionOk ==
  /\ consumer.pc = "caption"
  /\ needsCaption(consumer)
  /\ LET a == batch[1].assetId IN
       db' = IF a \in DOMAIN db
             THEN UpdateRow(db, a, [db[a] EXCEPT !.aiCaption = "caption",
                                                !.aiCaptionModel = CAPTION_MODEL])
             ELSE db
  /\ consumer' = [consumer EXCEPT !.pc = "embed", !.aiCaption = "caption",
                                  !.captionInvoked = TRUE]
  /\ UNCHANGED <<shareLink, visitors, sq, sr, assetTags, used, vectors, queue, nextMid, batch, caller, retryLog, acked>>

\* BUCKET.get returns nothing or throws, or the captioning model throws
CaptionFails(modelInvoked) ==
  /\ consumer.pc = "caption"
  /\ needsCaption(consumer)
  /\ consumer' = [captionCatch(consumer) EXCEPT !.captionInvoked = modelInvoked]
  /\ UNCHANGED <<shareLink, visitors, sq, sr, assetTags, db, used, vectors, queue, nextMid, batch, caller, retryLog, acked>>

\* the tag ids the join of asset_tags and tags returns for the asset
tagIdsOf(at, a) ==
  LET T == {p[2] : p \in {q \in at : q[1] = a}}
  IN  CHOOSE s \in Orderings(T, Cardinality(T)) : TRUE

\* the tag query and AI.run on the composed text
Embed ==
  /\ consumer.pc = "embed"
  /\ consumer' = [consumer EXCEPT !.pc = "upsert",
                                  !.tagIds = tagIdsOf(assetTags, batch[1].assetId)]
  /\ UNCHANGED <<shareLink, visitors, sq, sr, assetTags, db, used, vectors, queue, nextMid, batch, caller, retryLog, acked>>

EmbedThrows ==
  /\ consumer.pc = "embed"
  /\ consumer' = Throw(consumer, "AI error")
  /\ UNCHANGED <<shareLink, visitors, sq, sr, assetTags, db, used, vectors, queue, nextMid, batch, caller, retryLog, acked>>

VectorRecordKeyedByTenant(a, c) ==
  [ id |-> c.asset.organizationId,
    organizationId |-> c.asset.organizationId,
    folderId |-> IF c.asset.folderId = NULL THEN "" ELSE c.asset.folderId,
    mimeType |-> c.asset.mimeType,
    tagIds |-> jsonStringify(c.tagIds),
    withCaption |-> c.aiCaption # NULL ]

\* the record generateAssetEmbedding upserts, built from the row it loaded
VectorRecord(a, c) ==
  [ id |-> a,
    organizationId |-> c.asset.organizationId,
    folderId |-> IF c.asset.folderId = NULL THEN "" ELSE c.asset.folderId,
    mimeType |-> c.asset.mimeType,
    tagIds |-> jsonStringify(c.tagIds),
    withCaption |-> c.aiCaption # NULL ]

UpsertVector ==
  /\ consumer.pc = "upsert"
  /\ LET a == batch[1].assetId IN
       /\ vectors' = Upsert(vectors, VectorRecord(a, consumer))
       /\ consumer' = [consumer EXCEPT !.pc = "status",
                                       !.hadVector = \E r \in vectors : r.id = a]
  /\ UNCHANGED <<shareLink, visitors, sq, sr, assetTags, db, used, queue, nextMid, batch, caller, retryLog, acked>>

UpsertThrows ==
  /\ consumer.pc = "upsert"
  /\ consumer' = Throw(consumer, "Vectorize error")
  /\ UNCHANGED <<shareLink, visitors, sq, sr, assetTags, db, used, vectors, queue, nextMid, batch, caller, retryLog, acked>>

\* the last update of generateAssetEmbedding
completed(row) ==
  [row EXCEPT !.embeddingStatus = "completed", !.embeddedAt = "now", !.embeddingError = NULL]

SetCompleted ==
  /\ consumer.pc = "status"
  /\ LET a == batch[1].assetId IN
       db' = IF a \in DOMAIN db THEN UpdateRow(db, a, completed(db[a])) ELSE db
  /\ consumer' = [consumer EXCEPT !.pc = "ack"]
  /\ UNCHANGED <<shareLink, visitors, sq, sr, assetTags, used, vectors, queue, nextMid, batch, caller, retryLog, acked>>

SetCompletedThrows ==
  /\ consumer.pc = "status"
  /\ consumer' = Throw(consumer, "D1 error")
  /\ UNCHANGED <<shareLink, visitors, sq, sr, assetTags, db, used, vectors, queue, nextMid, batch, caller, retryLog, acked>>

\* try branch: message.ack()
Ack ==
  /\ consumer.pc = "ack"
  /\ acked' = acked \cup {batch[1].mid}
  /\ batch' = Tail(batch)
  /\ consumer' = NextMessage
  /\ UNCHANGED <<shareLink, visitors, sq, sr, assetTags, db, used, vectors, queue, nextMid, caller, retryLog>>

\* catch branch, retryCount < 3: message.retry({delaySeconds})
CatchRetry ==
  /\ consumer.pc = "catch"
  /\ retryCountOf(batch[1]) < 3
  /\ retryLog' = [retryLog EXCEPT ![batch[1].mid] = Append(@, retryDelay(retryCountOf(batch[1])))]
  /\ queue' = IF batch[1].attempts < MaxDeliveries THEN Append(queue, batch[1]) ELSE queue
  /\ batch' = Tail(batch)
  /\ consumer' = NextMessage
  /\ UNCHANGED <<shareLink, visitors, sq, sr, assetTags, db, used, vectors, nextMid, caller, acked>>

\* catch branch, retries used up: markEmbeddingFailed, then message.ack()
CatchGiveUp ==
  /\ consumer.pc = "catch"
  /\ ~(retryCountOf(batch[1]) < 3)
  /\ db' = markEmbeddingFailed(db, batch[1].assetId, consumer.error)
  /\ acked' = acked \cup {batch[1].mid}
  /\ batch' = Tail(batch)
  /\ consumer' = NextMessage
  /\ UNCHANGED <<shareLink, visitors, sq, sr, assetTags, used, vectors, queue, nextMid, caller, retryLog>>

\* the messages of an invocation that threw which the queue delivers again
\* (those on which neither ack() nor retry() was called)
redelivered(b) == SelectSeq(b, LAMBDA m : m.attempts < MaxDeliveries)

\* catch branch, retries used up, markEmbeddingFailed throws: the error
\* leaves handleEmbeddingQueue, the rest of the batch is not looked at
CatchGiveUpThrows ==
  /\ consumer.pc = "catch"
  /\ ~(retryCountOf(batch[1]) < 3)
  /\ queue' = queue \o redelivered(batch)
  /\ batch' = <<>>
  /\ consumer' = IdleConsumer
  /\ UNCHANGED <<shareLink, visitors, sq, sr, assetTags, db, used, vectors, nextMid, caller,
                 retryLog, acked>>

(* ---------------------------------------------------------------------- *)
(* The pipeline                                                            *)
(* ---------------------------------------------------------------------- *)
BatchSizes == 1..2
RetryCounts == {3}

Next ==
  \/ \E a \in AssetIds : UploadAsset(a)
  \/ \E a \in AssetIds, org \in Orgs : DeleteAsset(a, org)
  \/ \E ids \in SUBSET AssetIds, org \in Orgs : DeleteAssets(ids, org)
  \/ \E a \in AssetIds, org \in Orgs : ReembedAsset(a, org)
  \/ \E org \in Orgs, n \in BatchSizes : StartBackfill(org, n)
  \/ QueueSend
  \/ QueueSendThrows
  \/ QueueMark
  \/ \E a \in AssetIds, rc \in RetryCounts : ProducerSend(a, rc)
  \/ \E org \in Orgs : RetryFailedEmbeddings(org)
  \/ \E k \in 1..MaxBatch : Receive(k)
  \/ Load
  \/ CaptionSkip
  \/ CaptionOk
  \/ \E invoked \in BOOLEAN : CaptionFails(invoked)
  \/ Embed
  \/ EmbedThrows
  \/ UpsertVector
  \/ UpsertThrows
  \/ SetCompleted
  \/ SetCompletedThrows
  \/ Ack
  \/ CatchRetry
  \/ CatchGiveUp
  \/ CatchGiveUpThrows

Spec == Init /\ [][Next]_vars

\* The pipeline when every message comes from queueEmbedding: no message
\* carries a retryCount, so the give-up branch and with it the failed status
\* are out of reach and their actions are left out.
NextEnqueued ==
  \/ \E a \in AssetIds : UploadAsset(a)
  \/ \E a \in AssetIds, org \in Orgs : DeleteAsset(a, org)
  \/ \E ids \in SUBSET AssetIds, org \in Orgs : DeleteAssets(ids, org)
  \/ \E a \in AssetIds, org \in Orgs : ReembedAsset(a, org)
  \/ \E org \in Orgs, n \in BatchSizes : StartBackfill(org, n)
  \/ QueueSend
  \/ QueueSendThrows
  \/ QueueMark
  \/ \E k \in 1..MaxBatch : Receive(k)
  \/ Load
  \/ CaptionSkip
  \/ CaptionOk
  \/ \E invoked \in BOOLEAN : CaptionFails(invoked)
  \/ Embed
  \/ EmbedThrows
  \/ UpsertVector
  \/ UpsertThrows
  \/ SetCompleted
  \/ SetCompletedThrows
  \/ Ack
  \/ CatchRetry

SpecEnqueued == Init /\ [][NextEnqueued]_vars

(* ---------------------------------------------------------------------- *)
(* backfill.ts over a store whose assets are anywhere in the lifecycle     *)
(* ---------------------------------------------------------------------- *)
\* the row of an uploaded asset whose status is s: a failed asset has an
\* error and, like a completed one, an embeddedAt of an earlier run
LifecycleRow(a, s) ==
  [NewAsset(a) EXCEPT !.embeddingStatus = s,
                      !.embeddingError = IF s = "failed" THEN "AI error" ELSE NULL,
                      !.embeddedAt = IF s \in {"completed", "failed"} THEN "now" ELSE NULL]

LifecycleDbs ==
  UNION { { [a \in S |-> LifecycleRow(a, st[a])] : st \in [S -> Statuses] } :
          S \in {T \in SUBSET AssetIds : Cardinality(T) <= MaxUploads} }

\* the vector record of the run that embedded the asset as it was uploaded
EmbeddedVector(a) ==
  VectorRecord(a, [asset |-> NewAsset(a), tagIds |-> <<>>, aiCaption |-> NULL])

InitBackfill ==
  /\ db \in LifecycleDbs
  /\ used = DOMAIN db
  /\ assetTags = {}
  /\ vectors = {EmbeddedVector(a) : a \in {x \in DOMAIN db : db[x].embeddedAt # NULL}}
  /\ queue = <<>>
  /\ nextMid = 1
  /\ batch = <<>>
  /\ consumer = IdleConsumer
  /\ caller = IdleCaller
  /\ retryLog = [m \in Mids |-> <<>>]
  /\ acked = {}
  /\ sq = NoRequest
  /\ sr = NoResponse
  /\ shareLink = NoShareLink
  /\ visitors = [v \in Visitors |-> IdleVisitor]

NextBackfill ==
  \/ \E org \in Orgs, n \in BatchSizes : StartBackfill(org, n)
  \/ QueueSend
  \/ QueueSendThrows
  \/ QueueMark
  \/ \E org \in Orgs : RetryFailedEmbeddings(org)

SpecBackfill == InitBackfill /\ [][NextBackfill]_vars

(* ---------------------------------------------------------------------- *)
(* assets.ts: the metadata edits                                           *)
(* ---------------------------------------------------------------------- *)
\* a field the caller left out of the input (undefined): set() skips it
UndefinedText == <<"undefined">>
UndefinedId == "undefined"

\* the tenant that owns the folder / the tag
FolderOrgOf(f) == "orgA"
TagOrgOf(t) == "orgA"

setMetadataAndReset(row, altText, description, folderId) ==
  [row EXCEPT !.altText = IF altText = UndefinedText THEN @ ELSE altText,
              !.description = IF description = UndefinedText THEN @ ELSE description,
              !.folderId = IF folderId = UndefinedId THEN @ ELSE folderId,
              !.embeddingStatus = "pending"]

\* set({ altText, description, folderId, updatedAt })
setMetadata(row, altText, description, folderId) ==
  [row EXCEPT !.altText = IF altText = UndefinedText THEN @ ELSE altText,
              !.description = IF description = UndefinedText THEN @ ELSE description,
              !.folderId = IF folderId = UndefinedId THEN @ ELSE folderId]

\* if (folderId): the folder must belong to the caller's tenant
folderAllowed(folderId, org) ==
  folderId \in {UndefinedId, NULL} \/ FolderOrgOf(folderId) = org

\* updateAsset: ownership check, folder check, update
UpdateAsset(a, org, altText, description, folderId) ==
  /\ a \in DOMAIN db
  /\ db[a].organizationId = org
  /\ folderAllowed(folderId, org)
  /\ db' = UpdateRow(db, a, setMetadata(db[a], altText, description, folderId))
  /\ UNCHANGED <<shareLink, visitors, assetTags, used, vectors, queue, nextMid, batch, consumer, caller,
                 retryLog, acked, sq, sr>>

\* moveAssets: folder check, update of the listed rows of the tenant
MoveAssets(ids, org, folderId) ==
  /\ folderAllowed(folderId, org)
  /\ db' = [a \in DOMAIN db |->
              IF a \in ids /\ db[a].organizationId = org
              THEN [db[a] EXCEPT !.folderId = folderId]
              ELSE db[a]]
  /\ UNCHANGED <<shareLink, visitors, assetTags, used, vectors, queue, nextMid, batch, consumer, caller,
                 retryLog, acked, sq, sr>>

\* setAssetTags: ownership check, tag check, delete the pairs, insert the new ones
SetAssetTags(a, org, tagIds) ==
  /\ a \in DOMAIN db
  /\ db[a].organizationId = org
  /\ \A t \in tagIds : TagOrgOf(t) = org
  /\ assetTags' = {p \in assetTags : p[1] # a} \cup {<<a, t>> : t \in tagIds}
  /\ UNCHANGED <<shareLink, visitors, db, used, vectors, queue, nextMid, batch, consumer, caller,
                 retryLog, acked, sq, sr>>

\* tagAssets: tag check, one pair per listed asset of the tenant
TagAssets(ids, org, tagId) ==
  /\ TagOrgOf(tagId) = org
  /\ assetTags' = assetTags \cup
                    {<<a, tagId>> : a \in {x \in ids : x \in DOMAIN db /\ db[x].organizationId = org}}
  /\ UNCHANGED <<shareLink, visitors, db, used, vectors, queue, nextMid, batch, consumer, caller,
                 retryLog, acked, sq, sr>>

AltTexts == {UndefinedText, <<"c", "a", "t">>}
Descriptions == {UndefinedText, <<"P">>}
FolderInputs == {UndefinedId, NULL} \cup Folders

NextEdit ==
  \/ \E a \in AssetIds, org \in Orgs, altText \in AltTexts, description \in Descriptions,
        folderId \in FolderInputs : UpdateAsset(a, org, altText, description, folderId)
  \/ \E ids \in SUBSET AssetIds, org \in Orgs, folderId \in {NULL} \cup Folders :
        MoveAssets(ids, org, folderId)
  \/ \E a \in AssetIds, org \in Orgs, tagIds \in SUBSET TagIds : SetAssetTags(a, org, tagIds)
  \/ \E ids \in SUBSET AssetIds, org \in Orgs, tagId \in TagIds : TagAssets(ids, org, tagId)

\* the edits, over a store whose assets are anywhere in the lifecycle
SpecEdit == InitBackfill /\ [][NextEdit]_vars

(* ---------------------------------------------------------------------- *)
(* embeddings.ts: composeEmbeddingText                                     *)
(* Texts are sequences of characters.                                      *)
(* ---------------------------------------------------------------------- *)
\* the position of the last "." of s, 0 when there is none
lastDot(s) ==
  LET dots == {i \in 1..Len(s) : s[i] = "."}
  IN  IF dots = {} THEN 0 ELSE CHOOSE i \in dots : \A j \in dots : j <= i

stripNothing(s) == s

\* replace(/\.[^/.]+$/, ""): a "." followed up to the end by one or more
\* characters that are neither "/" nor "."
stripExtension(s) ==
  LET d == lastDot(s)
  IN  IF d > 0 /\ d < Len(s) /\ (\A i \in (d + 1)..Len(s) : s[i] # "/")
      THEN SubSeq(s, 1, d - 1)
      ELSE s

\* replace(/[-_]/g, " ")
replaceSeparators(s) == [i \in 1..Len(s) |-> IF s[i] \in {"-", "_"} THEN " " ELSE s[i]]

cleanFilename(filename) == replaceSeparators(stripExtension(filename))

\* Array.prototype.join(separator)
RECURSIVE join(_, _)
join(parts, separator) ==
  IF parts = <<>> THEN <<>>
  ELSE IF Len(parts) = 1 THEN parts[1]
  ELSE parts[1] \o separator \o join(Tail(parts), separator)

filterNothing(parts) == parts

\* filter(Boolean): null and the empty string are dropped
filterBoolean(parts) == SelectSeq(parts, LAMBDA part : part # NullText /\ part # <<>>)

composeEmbeddingText(filename, altText, description, aiCaption, tagNames) ==
  join(filterBoolean(<<cleanFilename(filename), altText, description, aiCaption,
                       join(tagNames, <<" ">>)>>),
       <<" ", "|", " ">>)

\* a call of composeEmbeddingText
Compose ==
  /\ sq.fn = "composeEmbeddingText"
  /\ sr = NoResponse
  /\ sr' = [ fn |-> "composeEmbeddingText",
             text |-> composeEmbeddingText(sq.filename, sq.altText, sq.description,
                                           sq.aiCaption, sq.tagNames) ]
  /\ UNCHANGED <<shareLink, visitors, db, assetTags, used, vectors, queue, nextMid, batch, consumer, caller,
                 retryLog, acked, sq>>

ComposeFilenames ==
  { <<"a", ".", "p", "n", "g">>,
    <<"M", "y", "-", "P", "h", "o", "t", "o", "_", "0", "1", ".", "J", "P", "G">>,
    <<".", "e", "n", "v">>,
    <<"a", "_", "b">>,
    <<"x", ".", "t", "a", "r", ".", "g", "z">>,
    <<"v", ".", "1", "/", "a">> }

ComposeInputs ==
  { [ fn |-> "composeEmbeddingText", filename |-> filename, altText |-> altText,
      description |-> description, aiCaption |-> aiCaption, tagNames |-> tagNames ] :
      filename \in ComposeFilenames,
      altText \in {NullText, <<>>, <<"B">>},
      description \in {NullText, <<"C">>},
      aiCaption \in {NullText, <<"D">>},
      tagNames \in { <<>>, << <<"e">> >>, << <<"e">>, <<"f">> >> } }

InitCompose ==
  /\ db = [x \in {} |-> NULL]
  /\ assetTags = {}
  /\ used = {}
  /\ vectors = {}
  /\ queue = <<>>
  /\ nextMid = 1
  /\ batch = <<>>
  /\ consumer = IdleConsumer
  /\ caller = IdleCaller
  /\ retryLog = [m \in Mids |-> <<>>]
  /\ acked = {}
  /\ sq \in ComposeInputs
  /\ sr = NoResponse
  /\ shareLink = NoShareLink
  /\ visitors = [v \in Visitors |-> IdleVisitor]

SpecCompose == InitCompose /\ [][Compose]_vars

(* ---------------------------------------------------------------------- *)
(* share.ts: getShareByToken on a link with a view limit                   *)
(* ---------------------------------------------------------------------- *)
\* the largest maxViews of a link
MaxViews == 2

\* findFirst by token: the call keeps the row it read
ShareFind(v) ==
  /\ visitors[v].pc = "idle"
  /\ visitors' = [visitors EXCEPT ![v] = [pc |-> "check", seen |-> shareLink, last |-> @.last]]
  /\ UNCHANGED <<db, assetTags, used, vectors, queue, nextMid, batch, consumer, caller,
                 retryLog, acked, sq, sr, shareLink>>

\* shareLink.maxViews && shareLink.viewCount >= shareLink.maxViews
limitReached(link) == link.maxViews # 0 /\ link.viewCount >= link.maxViews

\* throw new Error("Share link view limit reached")
ShareReject(v) ==
  /\ visitors[v].pc = "check"
  /\ limitReached(visitors[v].seen)
  /\ visitors' = [visitors EXCEPT ![v] = [IdleVisitor EXCEPT !.last = "threw"]]
  /\ UNCHANGED <<db, assetTags, used, vectors, queue, nextMid, batch, consumer, caller,
                 retryLog, acked, sq, sr, shareLink>>

\* update share_links set view_count = view_count + 1 where id = shareLink.id
ShareIncrement(v) ==
  /\ visitors[v].pc = "check"
  /\ ~limitReached(visitors[v].seen)
  /\ shareLink' = [shareLink EXCEPT !.viewCount = @ + 1]
  /\ visitors' = [visitors EXCEPT ![v] = [IdleVisitor EXCEPT !.last = "viewed"]]
  /\ UNCHANGED <<db, assetTags, used, vectors, queue, nextMid, batch, consumer, caller,
                 retryLog, acked, sq, sr>>

InitShare ==
  /\ db = [x \in {} |-> NULL]
  /\ assetTags = {}
  /\ used = {}
  /\ vectors = {}
  /\ queue = <<>>
  /\ nextMid = 1
  /\ batch = <<>>
  /\ consumer = IdleConsumer
  /\ caller = IdleCaller
  /\ retryLog = [m \in Mids |-> <<>>]
  /\ acked = {}
  /\ sq = NoRequest
  /\ sr = NoResponse
  /\ shareLink \in {[viewCount |-> 0, maxViews |-> m] : m \in 1..MaxViews}
  /\ visitors = [v \in Visitors |-> IdleVisitor]

NextShare ==
  \/ \E v \in Visitors : ShareFind(v)
  \/ \E v \in Visitors : ShareReject(v)
  \/ \E v \in Visitors : ShareIncrement(v)

SpecShare == InitShare /\ [][NextShare]_vars

(* ---------------------------------------------------------------------- *)
(* vector-search.ts: vectorSearch and hybridSearch                         *)
(* Scores are in hundredths: 0.2 is 20.                                    *)
(* ---------------------------------------------------------------------- *)
VECTORIZE_MAX_TOPK == 50
HYBRID_MIN_SCORE == 20
VECTOR_MIN_SCORE == 30
KEYWORD_BOOST == 30

\* a destructuring default: value = given unless it is undefined
orDefault(given, default) == IF given = Undefined THEN default ELSE given

\* ASCII lower case, for the letters the inputs use
lowerChar(ch) == IF ch = "C" THEN "c" ELSE IF ch = "P" THEN "p" ELSE ch
lower(s) == [i \in 1..Len(s) |-> lowerChar(s[i])]

\* String.prototype.trim
RECURSIVE trimStart(_)
trimStart(s) == IF s # <<>> /\ Head(s) = " " THEN trimStart(Tail(s)) ELSE s
RECURSIVE trimEnd(_)
trimEnd(s) == IF s # <<>> /\ s[Len(s)] = " " THEN trimEnd(SubSeq(s, 1, Len(s) - 1)) ELSE s
trimNothing(s) == s

trim(s) == trimEnd(trimStart(s))

\* column LIKE '%term%': SQLite ignores the case of ASCII letters, and a
\* NULL column matches nothing (the inputs hold no % or _)
like(col, term) ==
  /\ col # NullText
  /\ \E i \in 1..(Len(col) - Len(term) + 1) :
       SubSeq(lower(col), i, i + Len(term) - 1) = lower(term)

\* String.prototype.startsWith
startsWith(s, prefix) ==
  Len(prefix) <= Len(s) /\ SubSeq(s, 1, Len(prefix)) = prefix

\* getAuthContext: session, active organization, membership row
authCalls(auth) ==
  IF auth = NULL THEN {"auth.getSession"} ELSE {"auth.getSession", "db.members"}

\* VECTORIZE.query(embedding, {topK, filter, returnMetadata}): the first topK
\* entries of what the index ranks for the query
vectorizeQuery(ranking, topK) == SubSeq(ranking, 1, Min(topK, Len(ranking)))

\* the client-side mime type and tag filter both searches apply to a match
passesFilters(m, mimeTypePrefix, tagIds) ==
  /\ mimeTypePrefix # <<>> => startsWith(m.metadata.mimeType, mimeTypePrefix)
  /\ tagIds # <<>> =>
       \E i \in 1..Len(tagIds) : tagIds[i] \in Range(jsonParse(m.metadata.tagIds))

\* Map.prototype.set: a known key keeps its place
mapSet(entries, e) ==
  IF \E i \in 1..Len(entries) : entries[i].id = e.id
  THEN [i \in 1..Len(entries) |-> IF entries[i].id = e.id THEN e ELSE entries[i]]
  ELSE Append(entries, e)

reachesAnyScore(score, minScore) == TRUE

\* match.score >= minScore
reachesMinScore(score, minScore) == score >= minScore

\* first loop of hybridSearch: the matches that reach minScore and pass the filters
RECURSIVE vectorEntries(_, _, _, _, _)
vectorEntries(entries, matches, minScore, mimeTypePrefix, tagIds) ==
  IF matches = <<>> THEN entries
  ELSE LET m == Head(matches)
           next == IF reachesMinScore(m.score, minScore) /\ passesFilters(m, mimeTypePrefix, tagIds)
                   THEN mapSet(entries, [id |-> m.id, vectorScore |-> m.score,
                                         keywordMatch |-> FALSE])
                   ELSE entries
       IN  vectorEntries(next, Tail(matches), minScore, mimeTypePrefix, tagIds)

\* second loop of hybridSearch: the keyword rows
RECURSIVE keywordEntries(_, _)
keywordEntries(entries, rows) ==
  IF rows = <<>> THEN entries
  ELSE LET a == Head(rows)
           next == IF \E i \in 1..Len(entries) : entries[i].id = a
                   THEN [i \in 1..Len(entries) |->
                           IF entries[i].id = a
                           THEN [entries[i] EXCEPT !.keywordMatch = TRUE]
                           ELSE entries[i]]
                   ELSE Append(entries, [id |-> a, vectorScore |-> 0, keywordMatch |-> TRUE])
       IN  keywordEntries(next, Tail(rows))

matchTypeOf(vectorScore, keywordMatch) ==
  IF vectorScore > 0 /\ keywordMatch THEN "both"
  ELSE IF keywordMatch THEN "keyword"
  ELSE "semantic"

combinedScoreBoostAlways(vectorScore, keywordMatch, keywordBoost) ==
  vectorScore + keywordBoost

combinedScore(vectorScore, keywordMatch, keywordBoost) ==
  vectorScore + (IF keywordMatch THEN keywordBoost ELSE 0)

scoreEntry(e, keywordBoost) ==
  [ id |-> e.id,
    score |-> combinedScore(e.vectorScore, e.keywordMatch, keywordBoost),
    matchType |-> matchTypeOf(e.vectorScore, e.keywordMatch) ]

\* Array.prototype.sort((a, b) => b.score - a.score): stable, descending
RECURSIVE insertByScore(_, _)
insertByScore(sorted, e) ==
  IF sorted = <<>> THEN <<e>>
  ELSE IF Head(sorted).score >= e.score
       THEN <<Head(sorted)>> \o insertByScore(Tail(sorted), e)
       ELSE <<e>> \o sorted

sortNothing(s) == s

RECURSIVE sortByScore(_)
sortByScore(s) ==
  IF s = <<>> THEN <<>>
  ELSE insertByScore(sortByScore(SubSeq(s, 1, Len(s) - 1)), s[Len(s)])

\* Array.prototype.slice(0, n)
slice(s, n) == SubSeq(s, 1, Min(n, Len(s)))

\* the rows the keyword branch may get: tenant, LIKE, folder, LIMIT, no ORDER BY
keywordWhere(d, org, term, folderId) ==
  {a \in DOMAIN d :
     /\ d[a].organizationId = org
     /\ like(d[a].filename, term) \/ like(d[a].altText, term) \/ like(d[a].description, term)
     /\ folderId # NULL => d[a].folderId = folderId}

keywordRows(d, org, term, folderId, limit) ==
  Orderings(keywordWhere(d, org, term, folderId),
            Min(limit, Cardinality(keywordWhere(d, org, term, folderId))))

hydrateWhereAnyTenant(d, ids, org) == {a \in DOMAIN d : a \in ids}

\* WHERE id IN ids AND organization_id = org
hydrateWhere(d, ids, org) == {a \in DOMAIN d : a \in ids /\ d[a].organizationId = org}

hydrateAllOrNothing(scored, d, found) ==
  IF \A i \in 1..Len(scored) : scored[i].id \in found
  THEN [i \in 1..Len(scored) |->
          [id |-> scored[i].id, asset |-> d[scored[i].id], score |-> scored[i].score,
           matchType |-> scored[i].matchType]]
  ELSE <<>>

\* scoredIds.map(...).filter(r => r !== null)
RECURSIVE hydrate(_, _, _)
hydrate(scored, d, found) ==
  IF scored = <<>> THEN <<>>
  ELSE LET e == Head(scored) IN
       IF e.id \in found
       THEN <<[id |-> e.id, asset |-> d[e.id], score |-> e.score, matchType |-> e.matchType]>>
              \o hydrate(Tail(scored), d, found)
       ELSE hydrate(Tail(scored), d, found)

\* the score map of hybridSearch after both loops
scoreMapOf(q, rows) ==
  keywordEntries(
    vectorEntries(<<>>, vectorizeQuery(q.ranking, Min(q.limit, VECTORIZE_MAX_TOPK)),
                  orDefault(q.minScore, HYBRID_MIN_SCORE), q.mimeTypePrefix, q.tagIds),
    rows)

\* scoredIds of hybridSearch
scoredIdsOf(q, rows) ==
  LET scoreMap == scoreMapOf(q, rows)
      boost == orDefault(q.keywordBoost, KEYWORD_BOOST)
  IN  slice(sortByScore([i \in 1..Len(scoreMap) |-> scoreEntry(scoreMap[i], boost)]), q.limit)

\* what a call did: its result, the collaborators it called, and for
\* hybridSearch the rows of the keyword branch and the score map
Response(fn, outcome, results, calls) ==
  [ fn |-> fn, outcome |-> outcome, results |-> results, calls |-> calls,
    keywordRows |-> <<>>, scoreMap |-> <<>> ]

\* getAuthContext throws: the search rejects before it reads its input
SearchUnauthenticated(fn) ==
  /\ sq.fn = fn
  /\ sr = NoResponse
  /\ sq.auth = NULL
  /\ sr' = Response(fn, "threw", <<>>, authCalls(sq.auth))
  /\ UNCHANGED <<shareLink, visitors, db, assetTags, used, vectors, queue, nextMid, batch, consumer, caller,
                 retryLog, acked, sq>>

\* if (!query.trim()) return []
SearchEmptyQuery(fn) ==
  /\ sq.fn = fn
  /\ sr = NoResponse
  /\ sq.auth # NULL
  /\ trim(sq.query) = <<>>
  /\ sr' = Response(fn, "returned", <<>>, authCalls(sq.auth))
  /\ UNCHANGED <<shareLink, visitors, db, assetTags, used, vectors, queue, nextMid, batch, consumer, caller,
                 retryLog, acked, sq>>

HybridSearch ==
  /\ sq.fn = "hybridSearch"
  /\ sr = NoResponse
  /\ sq.auth # NULL
  /\ trim(sq.query) # <<>>
  /\ \E rows \in keywordRows(db, sq.auth, trim(sq.query), sq.folderId, sq.limit) :
       LET scoredIds == scoredIdsOf(sq, rows)
           branches == authCalls(sq.auth) \cup {"AI.run", "VECTORIZE.query", "db.assets.keyword"}
           done == IF scoredIds = <<>>
                   THEN Response("hybridSearch", "returned", <<>>, branches)
                   ELSE Response("hybridSearch", "returned",
                                 hydrate(scoredIds, db,
                                         hydrateWhere(db, {scoredIds[i].id : i \in 1..Len(scoredIds)},
                                                      sq.auth)),
                                 branches \cup {"db.assets.hydrate"})
       IN  sr' = [done EXCEPT !.keywordRows = rows, !.scoreMap = scoreMapOf(sq, rows)]
  /\ UNCHANGED <<shareLink, visitors, db, assetTags, used, vectors, queue, nextMid, batch, consumer, caller,
                 retryLog, acked, sq>>

matchingIdsAsHybrid(q) ==
  LET matches == vectorizeQuery(q.ranking, Min(q.limit, VECTORIZE_MAX_TOPK))
      minScore == orDefault(q.minScore, HYBRID_MIN_SCORE)
      kept == SelectSeq(matches, LAMBDA m : reachesMinScore(m.score, minScore)
                                             /\ passesFilters(m, q.mimeTypePrefix, q.tagIds))
  IN  slice([i \in 1..Len(kept) |-> [id |-> kept[i].id, score |-> kept[i].score]], q.limit)

\* matchingIds of vectorSearch
matchingIdsOf(q) ==
  LET matches == vectorizeQuery(q.ranking, Min(q.limit * 2, VECTORIZE_MAX_TOPK))
      minScore == orDefault(q.minScore, VECTOR_MIN_SCORE)
      kept == SelectSeq(matches, LAMBDA m : reachesMinScore(m.score, minScore)
                                             /\ passesFilters(m, q.mimeTypePrefix, q.tagIds))
  IN  slice([i \in 1..Len(kept) |-> [id |-> kept[i].id, score |-> kept[i].score]], q.limit)

\* the score vectorSearch looks up for a row: scoreMap.get(asset.id) || 0
scoreOfId(matchingIds, a) ==
  LET hits == {i \in 1..Len(matchingIds) : matchingIds[i].id = a}
  IN  IF hits = {} THEN 0 ELSE matchingIds[CHOOSE i \in hits : \A j \in hits : j <= i].score

VectorSearch ==
  /\ sq.fn = "vectorSearch"
  /\ sr = NoResponse
  /\ sq.auth # NULL
  /\ trim(sq.query) # <<>>
  /\ LET matchingIds == matchingIdsOf(sq)
         found == hydrateWhere(db, {matchingIds[i].id : i \in 1..Len(matchingIds)}, sq.auth)
         calls == authCalls(sq.auth) \cup {"AI.run", "VECTORIZE.query"}
     IN  IF matchingIds = <<>>
         THEN sr' = Response("vectorSearch", "returned", <<>>, calls)
         ELSE \E assetList \in Orderings(found, Cardinality(found)) :
                sr' = Response("vectorSearch", "returned",
                               sortByScore([i \in 1..Len(assetList) |->
                                              [ id |-> assetList[i],
                                                asset |-> db[assetList[i]],
                                                score |-> scoreOfId(matchingIds, assetList[i]),
                                                matchType |-> "semantic" ]]),
                               calls \cup {"db.assets.hydrate"})
  /\ UNCHANGED <<shareLink, visitors, db, assetTags, used, vectors, queue, nextMid, batch, consumer, caller,
                 retryLog, acked, sq>>

(* ---------------------------------------------------------------------- *)
(* The searches, over every request and every answer of the index          *)
(* ---------------------------------------------------------------------- *)
\* limit of a request
MaxLimit == 2
\* entries in what the index ranks for a query
MaxRanking == 2

Scores == {-10, 10, 25, 50}
Queries == { <<>>, <<" ", " ">>, <<" ", "P">>, <<"c", "a", "t">> }

\* the metadata stored with the vector of an asset
MetadataOf(a) ==
  [ organizationId |-> OrgOf(a),
    folderId |-> IF FolderOf(a) = NULL THEN "" ELSE FolderOf(a),
    mimeType |-> MimeOf(a),
    tagIds |-> jsonStringify(IF a = "a1" THEN <<"t1">> ELSE <<>>) ]

\* what the index may rank: distinct ids, best score first; the tenant
\* filter of the index is not relied on
Rankings ==
  UNION { { r \in [1..n -> [id : AssetIds, score : Scores]] :
              /\ \A i, j \in 1..n : i # j => r[i].id # r[j].id
              /\ \A i \in 1..(n - 1) : r[i].score >= r[i + 1].score } : n \in 0..MaxRanking }

WithMetadata(r) ==
  [i \in 1..Len(r) |-> [id |-> r[i].id, score |-> r[i].score, metadata |-> MetadataOf(r[i].id)]]

Requests ==
  { [ fn |-> fn, auth |-> auth, query |-> query, limit |-> limit, folderId |-> folderId,
      tagIds |-> tagIds, mimeTypePrefix |-> prefix, minScore |-> minScore,
      keywordBoost |-> Undefined, ranking |-> WithMetadata(r) ] :
      fn \in {"hybridSearch", "vectorSearch"}, auth \in Orgs \cup {NULL}, query \in Queries,
      limit \in 1..MaxLimit, folderId \in Folders \cup {NULL},
      tagIds \in {<<>>, <<"t1">>}, prefix \in {<<>>, <<"image", "/">>},
      minScore \in {Undefined, -50}, r \in Rankings }

\* the stores after some uploads
UploadedDbs ==
  { [a \in S |-> NewAsset(a)] : S \in {T \in SUBSET AssetIds : Cardinality(T) <= MaxUploads} }

InitSearch ==
  /\ db \in UploadedDbs
  /\ used = DOMAIN db
  /\ assetTags = {}
  /\ vectors = {}
  /\ queue = <<>>
  /\ nextMid = 1
  /\ batch = <<>>
  /\ consumer = IdleConsumer
  /\ caller = IdleCaller
  /\ retryLog = [m \in Mids |-> <<>>]
  /\ acked = {}
  /\ sq \in Requests
  /\ sr = NoResponse
  /\ shareLink = NoShareLink
  /\ visitors = [v \in Visitors |-> IdleVisitor]

NextSearch ==
  \/ \E fn \in {"hybridSearch", "vectorSearch"} : SearchUnauthenticated(fn)
  \/ \E fn \in {"hybridSearch", "vectorSearch"} : SearchEmptyQuery(fn)
  \/ HybridSearch
  \/ VectorSearch

SpecSearch == InitSearch /\ [][NextSearch]_vars

(* ---------------------------------------------------------------------- *)
(* The searches over the index as the embedding runs left it, after the    *)
(* assets were moved                                                       *)
(* ---------------------------------------------------------------------- *)
\* VECTORIZE.query with filter { organizationId, folderId? }: the index
\* compares the filter with the metadata stored with each vector
vectorizeFilter(v, org, folderId) ==
  {r \in v : r.organizationId = org /\ (folderId # NULL => r.folderId = folderId)}

\* a vector record as a match with its metadata
matchOf(r, score) ==
  [ id |-> r.id, score |-> score,
    metadata |-> [ organizationId |-> r.organizationId, folderId |-> r.folderId,
                   mimeType |-> r.mimeType, tagIds |-> r.tagIds ] ]

\* what the index may answer: records that pass the filter, best score first
IndexAnswers(v, org, folderId) ==
  UNION { { [i \in 1..n |-> matchOf(order[i], score[i])] :
              order \in Orderings(vectorizeFilter(v, org, folderId), n),
              score \in {sc \in [1..n -> Scores] : \A i \in 1..(n - 1) : sc[i] >= sc[i + 1]} } :
          n \in 0..Min(MaxRanking, Cardinality(vectorizeFilter(v, org, folderId))) }

\* a member of org calls fn; the index answers the query of the call
SearchArrives(fn, org, folderId, limit) ==
  /\ sq = NoRequest
  /\ \E ranking \in IndexAnswers(vectors, org, folderId) :
       sq' = [ fn |-> fn, auth |-> org, query |-> <<"c", "a", "t">>, limit |-> limit,
               folderId |-> folderId, tagIds |-> <<>>, mimeTypePrefix |-> <<>>,
               minScore |-> Undefined, keywordBoost |-> Undefined, ranking |-> ranking ]
  /\ UNCHANGED <<db, assetTags, used, vectors, queue, nextMid, batch, consumer, caller,
                 retryLog, acked, sr, shareLink, visitors>>

\* every uploaded asset was embedded as it was uploaded
InitMoved ==
  /\ db \in { [a \in S |-> LifecycleRow(a, "completed")] :
                S \in {T \in SUBSET AssetIds : T # {} /\ Cardinality(T) <= MaxUploads} }
  /\ used = DOMAIN db
  /\ assetTags = {}
  /\ vectors = {EmbeddedVector(a) : a \in DOMAIN db}
  /\ queue = <<>>
  /\ nextMid = 1
  /\ batch = <<>>
  /\ consumer = IdleConsumer
  /\ caller = IdleCaller
  /\ retryLog = [m \in Mids |-> <<>>]
  /\ acked = {}
  /\ sq = NoRequest
  /\ sr = NoResponse
  /\ shareLink = NoShareLink
  /\ visitors = [v \in Visitors |-> IdleVisitor]

\* updateAsset and moveAssets, called before the search is
EditBeforeSearch ==
  /\ sq = NoRequest
  /\ \E a \in AssetIds, org \in Orgs, altText \in AltTexts, folderId \in FolderInputs :
       UpdateAsset(a, org, altText, UndefinedText, folderId)

MoveBeforeSearch ==
  /\ sq = NoRequest
  /\ \E ids \in SUBSET AssetIds, org \in Orgs, folderId \in {NULL} \cup Folders :
       MoveAssets(ids, org, folderId)

\* the edits come first, then one search is served
NextMoved ==
  \/ EditBeforeSearch
  \/ MoveBeforeSearch
  \/ \E fn \in {"hybridSearch", "vectorSearch"}, org \in Orgs, folderId \in {NULL} \cup Folders,
        limit \in 1..MaxLimit : SearchArrives(fn, org, folderId, limit)
  \/ HybridSearch
  \/ VectorSearch

SpecMoved == InitMoved /\ [][NextMoved]_vars

(* ====================================================================== *)
(* Properties                                                              *)
(* ====================================================================== *)
IsPrefix(s, t) == Len(s) <= Len(t) /\ SubSeq(t, 1, Len(s)) = s

InFlight == Range(queue) \cup Range(batch)

StatusOf(d, a) == d[a].embeddingStatus

VectorsOf(v, a) == {r \in v : r.id = a}

\* C1: a message sent by queueEmbedding whose handling always throws is
\* retried with the delays 20, 40, 80 in that order and no more than three
\* times; the fourth failure marks the asset failed and acks the message.
C1_RetryExhaustion ==
  \A m \in InFlight :
    m.src = "queueEmbedding" =>
      /\ IsPrefix(retryLog[m.mid], <<20, 40, 80>>)
      /\ m.attempts <= 4

\* C2: every change of an asset's embeddingStatus is pending -> processing,
\* processing -> completed, processing -> failed, failed -> pending or
\* completed -> processing.
ValidTransitions ==
  { <<"pending", "processing">>, <<"processing", "completed">>,
    <<"processing", "failed">>, <<"failed", "pending">>,
    <<"completed", "processing">> }

C2_StatusTransitions ==
  [][\A a \in (DOMAIN db) \cap (DOMAIN db') :
       StatusOf(db, a) # StatusOf(db', a) =>
         <<StatusOf(db, a), StatusOf(db', a)>> \in ValidTransitions]_vars

\* C3: embeddedAt is set exactly when embeddingStatus is completed.
C3_EmbeddedAtIffCompleted ==
  \A a \in DOMAIN db : (db[a].embeddedAt # NULL) <=> (StatusOf(db, a) = "completed")

\* C4: when deleteAsset or deleteAssets has removed a row, the index holds no
\* vector record with that id.
C4_DeletionRemovesVectors ==
  [][\A a \in DOMAIN db : a \notin DOMAIN db' => VectorsOf(vectors', a) = {}]_vars

\* C5: every asset hybridSearch returns belongs to the caller's tenant,
\* whatever the vector index ranks.
C5_TenantIsolation ==
  (sr.fn = "hybridSearch" /\ sr.outcome = "returned") =>
    \A i \in 1..Len(sr.results) : sr.results[i].asset.organizationId = sq.auth

\* a search of orgA came back with results although the index ranked an
\* existing asset of orgB first
C5_Witness ==
  /\ sr.fn = "hybridSearch"
  /\ sq.auth = "orgA"
  /\ Len(sr.results) > 0
  /\ Len(sq.ranking) = 2
  /\ sq.ranking[1].id = "b1"
  /\ sq.ranking[1].score = 50
  /\ sq.mimeTypePrefix = <<>>
  /\ sq.tagIds = <<>>
  /\ "b1" \in DOMAIN db

IsBlank(text) == \A i \in 1..Len(text) : text[i] = " "

BeyondAuth == {"db.members", "AI.run", "VECTORIZE.query", "db.assets.keyword", "db.assets.hydrate"}

EntryOf(a) == sr.scoreMap[CHOOSE i \in 1..Len(sr.scoreMap) : sr.scoreMap[i].id = a]

KeywordMatched(a) == a \in Range(sr.keywordRows)

Fused(expectedType(_, _)) ==
  (sr.fn = "hybridSearch" /\ sr.outcome = "returned") =>
    /\ \A i \in 1..Len(sr.scoreMap) :
         sr.scoreMap[i].keywordMatch <=> KeywordMatched(sr.scoreMap[i].id)
    /\ \A i \in 1..Len(sr.results) :
         LET r == sr.results[i]
             vectorScore == EntryOf(r.id).vectorScore
         IN  /\ \E j \in 1..Len(sr.scoreMap) : sr.scoreMap[j].id = r.id
             /\ r.score = IF KeywordMatched(r.id) THEN vectorScore + KEYWORD_BOOST
                          ELSE vectorScore
             /\ r.matchType = expectedType(vectorScore, KeywordMatched(r.id))

TypeAsClaimed(vectorScore, keywordMatched) ==
  IF vectorScore > 0 /\ keywordMatched THEN "both"
  ELSE IF keywordMatched /\ vectorScore = 0 THEN "keyword"
  ELSE "semantic"

TypeAmended(vectorScore, keywordMatched) ==
  IF vectorScore > 0 /\ keywordMatched THEN "both"
  ELSE IF keywordMatched /\ vectorScore <= 0 THEN "keyword"
  ELSE "semantic"

\* C7 as stated: the score is vectorScore plus the boost of a keyword match,
\* and the match type is both iff vectorScore > 0 and keyword-matched, keyword
\* iff keyword-matched with vectorScore = 0, semantic otherwise.
C7_FusionScoringAsClaimed == Fused(TypeAsClaimed)

\* C7: the score is vectorScore plus the boost of a keyword match, and the
\* match type is both iff vectorScore > 0 and keyword-matched, keyword iff
\* keyword-matched with vectorScore <= 0, semantic otherwise.
C7_FusionScoring == Fused(TypeAmended)

\* X found by both branches (0.5 + 0.3) is ranked above Y found by keyword only
C7_Witness ==
  /\ sr.fn = "hybridSearch"
  /\ Len(sr.results) = 2
  /\ sr.results[1].id = "a1" /\ sr.results[1].score = 80 /\ sr.results[1].matchType = "both"
  /\ sr.results[2].id = "a2" /\ sr.results[2].score = 30 /\ sr.results[2].matchType = "keyword"

\* C8: the list hybridSearch returns is in non-increasing order of score, has
\* at most limit entries and holds every asset id at most once.
C8_OrderedBoundedDistinct ==
  (sr.fn = "hybridSearch" /\ sr.outcome = "returned") =>
    /\ \A i \in 1..(Len(sr.results) - 1) : sr.results[i].score >= sr.results[i + 1].score
    /\ Len(sr.results) <= sq.limit
    /\ \A i, j \in 1..Len(sr.results) : i # j => sr.results[i].id # sr.results[j].id

\* two results came back in the opposite order of their score map entries
C8_Witness ==
  /\ sr.fn = "hybridSearch"
  /\ Len(sr.results) = 2
  /\ Len(sr.scoreMap) = 2
  /\ sr.results[1].id = sr.scoreMap[2].id
  /\ sr.results[1].score > sr.results[2].score

\* the step in which generateAssetEmbedding returns
RunCompletes == consumer.pc = "status" /\ consumer'.pc = "ack"

\* C9: a run of generateAssetEmbedding for an asset that already has a vector
\* leaves exactly one vector record with that id and the status completed,
\* the index never holds two records with one id, and the captioning model
\* is invoked only for an asset whose row has no caption.
C9_PipelineIdempotence ==
  /\ [](\A a \in AssetIds : Cardinality(VectorsOf(vectors, a)) <= 1)
  /\ [][(RunCompletes /\ consumer.hadVector) =>
          LET a == batch[1].assetId IN
            /\ Cardinality(VectorsOf(vectors', a)) = 1
            /\ a \in DOMAIN db' => StatusOf(db', a) = "completed"]_vars
  /\ [][(consumer'.captionInvoked /\ ~consumer.captionInvoked) =>
          LET a == batch[1].assetId IN
            a \in DOMAIN db => db[a].aiCaption = NULL]_vars

\* a second run has returned: the vector was there before, the caption of
\* the first run was reused
C9_Witness ==
  /\ consumer.pc = "ack"
  /\ consumer.hadVector
  /\ ~consumer.captionInvoked
  /\ batch[1].assetId \in DOMAIN db
  /\ db[batch[1].assetId].aiCaption = "caption"
  /\ StatusOf(db, batch[1].assetId) = "completed"
  /\ Cardinality(VectorsOf(vectors, batch[1].assetId)) = 1

\* the step in which the caption block of a captionable asset without
\* caption ends without a caption
CaptionBlockFails ==
  /\ consumer.pc = "caption"
  /\ consumer'.pc # "caption"
  /\ needsCaption(consumer)
  /\ consumer'.aiCaption = NULL

\* C10: a failure of the image fetch or of the captioning model does not end
\* the run: it goes on to embed, and when it returns the status is
\* completed, the vector is there and aiCaption and aiCaptionModel are null.
C10_CaptionNonFatal ==
  /\ [][CaptionBlockFails => (consumer'.pc = "embed" /\ db' = db)]_vars
  /\ [][(RunCompletes /\ consumer.captionFailed) =>
          LET a == batch[1].assetId IN
            /\ \E r \in vectors' : r.id = a /\ ~r.withCaption
            /\ a \in DOMAIN db' =>
                 /\ StatusOf(db', a) = "completed"
                 /\ db'[a].aiCaption = NULL
                 /\ db'[a].aiCaptionModel = NULL]_vars

\* a run whose captioning model threw has returned
C10_Witness ==
  /\ consumer.pc = "ack"
  /\ consumer.captionFailed
  /\ consumer.captionInvoked
  /\ batch[1].assetId \in DOMAIN db
  /\ StatusOf(db, batch[1].assetId) = "completed"
  /\ db[batch[1].assetId].aiCaption = NULL
  /\ \E r \in vectors : r.id = batch[1].assetId /\ ~r.withCaption

\* the step in which uploadAsset inserts the row of a
Uploads(a) == a \notin DOMAIN db /\ a \in DOMAIN db'

\* C11: the upload of an asset sends an embed message for it: when
\* uploadAsset has inserted the row, a message with the asset's id is in the
\* queue.
C11_UploadEnqueues ==
  [][\A a \in AssetIds :
       Uploads(a) => \E i \in 1..Len(queue') : queue'[i].assetId = a]_vars

\* C12: the index holds no vector record of an asset whose pipeline run has
\* not yet set its status to completed (embeddedAt is written by that update
\* and by nothing else, and no update clears it).
C12_NoVectorBeforeCompleted ==
  \A a \in DOMAIN db : VectorsOf(vectors, a) # {} => db[a].embeddedAt # NULL

\* the step in which the queue hands a batch to the consumer
Delivers == batch = <<>> /\ batch' # <<>>

\* C19: whenever the consumer picks up a message sent by queueEmbedding for
\* the first time, the status of its asset is already processing.
C19_ProcessingAtEnqueue ==
  [][Delivers =>
       \A i \in 1..Len(batch') :
         (/\ batch'[i].src = "queueEmbedding"
          /\ batch'[i].attempts = 1
          /\ batch'[i].assetId \in DOMAIN db)
           => StatusOf(db, batch'[i].assetId) = "processing"]_vars

\* C20: when generateAssetEmbedding has thrown because the asset is absent,
\* handleEmbeddingQueue does not call retry on the message.
C20_NotFoundNotRetried ==
  [][(consumer.pc = "catch" /\ consumer.error = "Asset not found")
       => retryLog' = retryLog]_vars

\* C13: retryFailedEmbeddings sets every failed asset of the caller's tenant
\* to pending with embeddingError null, sends no message, and leaves every
\* asset of another tenant and every asset that is not failed as it was.
C13_RetryFailedFrame ==
  [][\A org \in Orgs :
       RetryFailedEmbeddings(org) =>
         /\ DOMAIN db' = DOMAIN db
         /\ \A a \in DOMAIN db :
              IF db[a].organizationId = org /\ StatusOf(db, a) = "failed"
              THEN StatusOf(db', a) = "pending" /\ db'[a].embeddingError = NULL
              ELSE db'[a] = db[a]
         /\ queue' = queue
         /\ nextMid' = nextMid]_vars

\* orgA's failed asset was reset (a pending asset with the embeddedAt of an
\* earlier run) while orgB's failed asset kept its status and its error
C13_Witness ==
  /\ "a1" \in DOMAIN db /\ "b1" \in DOMAIN db
  /\ StatusOf(db, "a1") = "pending"
  /\ db["a1"].embeddingError = NULL
  /\ db["a1"].embeddedAt # NULL
  /\ StatusOf(db, "b1") = "failed"
  /\ db["b1"].embeddingError = "AI error"
  /\ queue = <<>>

\* the step in which queueEmbedding throws inside the loop of startBackfill
BackfillSendThrows ==
  caller.op = "backfill" /\ caller.pc = "send" /\ caller' # caller /\ queue' = queue

\* C14: startBackfill selects at most batchSize assets, all pending and of
\* the caller's tenant, and calls queueEmbedding for each in turn; when one
\* call throws, the loop goes on with the next selected asset, and the call
\* returns only after the last one.
C14_BackfillPerItem ==
  /\ [][\A org \in Orgs, n \in BatchSizes :
          StartBackfill(org, n) =>
            /\ Len(caller'.selected) <= n
            /\ \A i \in 1..Len(caller'.selected) :
                 /\ caller'.selected[i] \in PendingOf(org)
                 /\ \A j \in 1..Len(caller'.selected) :
                      i # j => caller'.selected[i] # caller'.selected[j]
            /\ caller'.todo = caller'.selected]_vars
  /\ [][BackfillSendThrows =>
          IF Len(caller.todo) > 1
          THEN /\ caller'.op = "backfill"
               /\ caller'.todo = Tail(caller.todo)
               /\ caller'.pc = "send"
          ELSE caller'.op = "idle"]_vars
  /\ [][(caller.op = "backfill" /\ caller'.op = "idle") => Len(caller.todo) = 1]_vars
  /\ [][(caller.op = "backfill" /\ caller.pc = "send" /\ caller'.pc = "mark") =>
          /\ Len(queue') = Len(queue) + 1
          /\ queue'[Len(queue')].assetId = Head(caller.todo)]_vars

\* two assets were selected, the send for the first threw (it is still
\* pending and has no message), the second was sent all the same
C14_Witness ==
  /\ caller.op = "backfill"
  /\ Len(caller.selected) = 2
  /\ caller.todo = <<caller.selected[2]>>
  /\ caller.pc = "mark"
  /\ StatusOf(db, caller.selected[1]) = "pending"
  /\ Len(queue) = 1
  /\ queue[1].assetId = caller.selected[2]

\* the embedding columns of a row
Lifecycle(row) == <<row.embeddingStatus, row.embeddingError, row.embeddedAt>>

\* C15: updateAsset, moveAssets, setAssetTags and tagAssets change no
\* asset's embeddingStatus, embeddingError or embeddedAt and send no message.
C15_EditsLeaveLifecycle ==
  [][/\ DOMAIN db' = DOMAIN db
     /\ \A a \in DOMAIN db : Lifecycle(db'[a]) = Lifecycle(db[a])
     /\ queue' = queue
     /\ nextMid' = nextMid]_vars

\* a completed asset got an alt text and a tag and was moved out of its
\* folder; it is still completed and nothing was sent
C15_Witness ==
  /\ "a1" \in DOMAIN db
  /\ db["a1"].altText = <<"c", "a", "t">>
  /\ db["a1"].folderId = NULL
  /\ <<"a1", "t1">> \in assetTags
  /\ StatusOf(db, "a1") = "completed"
  /\ db["a1"].embeddedAt = "now"
  /\ queue = <<>>

Delimiter == <<" ", "|", " ">>

\* the segments of a composed text: what stands between the delimiters
RECURSIVE Segments(_)
Segments(text) ==
  LET at == {i \in 1..(Len(text) - 2) : SubSeq(text, i, i + 2) = Delimiter}
  IN  IF at = {} THEN <<text>>
      ELSE LET i == CHOOSE k \in at : \A j \in at : k <= j
           IN  <<SubSeq(text, 1, i - 1)>> \o Segments(SubSeq(text, i + 3, Len(text)))

Present(field) == field # NullText /\ field # <<>>

\* the fields of the request that are present, in the order of the claim
ExpectedSegments ==
  LET tags == IF sq.tagNames = <<>> THEN <<>>
              ELSE IF Len(sq.tagNames) = 1 THEN sq.tagNames[1]
              ELSE sq.tagNames[1] \o <<" ">> \o sq.tagNames[2]
  IN  (IF Present(cleanFilename(sq.filename)) THEN <<cleanFilename(sq.filename)>> ELSE <<>>)
      \o (IF Present(sq.altText) THEN <<sq.altText>> ELSE <<>>)
      \o (IF Present(sq.description) THEN <<sq.description>> ELSE <<>>)
      \o (IF Present(sq.aiCaption) THEN <<sq.aiCaption>> ELSE <<>>)
      \o (IF Present(tags) THEN <<tags>> ELSE <<>>)

ExampleInput ==
  /\ sq.filename = <<"a", ".", "p", "n", "g">>
  /\ sq.altText = <<"B">>
  /\ sq.description = <<"C">>
  /\ sq.aiCaption = <<"D">>
  /\ sq.tagNames = << <<"e">>, <<"f">> >>

\* C16: the composed text consists of the present entries of cleaned
\* filename, altText, description, aiCaption and space-joined tag names, in
\* that order, separated by " | "; no segment is empty, so no two delimiters
\* are adjacent; a.png, B, C, D, [e, f] gives "a | B | C | D | e f".
C16_ComposeSegments ==
  sr.fn = "composeEmbeddingText" =>
    /\ IF ExpectedSegments = <<>> THEN sr.text = <<>>
       ELSE Segments(sr.text) = ExpectedSegments
    /\ \A i \in 1..(Len(sr.text) - 5) :
         ~(SubSeq(sr.text, i, i + 2) = Delimiter /\ SubSeq(sr.text, i + 3, i + 5) = Delimiter)
    /\ ExampleInput =>
         sr.text = <<"a", " ", "|", " ", "B", " ", "|", " ", "C", " ", "|", " ", "D",
                     " ", "|", " ", "e", " ", "f">>

\* a text was composed from a filename and tags only: altText is the empty
\* string, description and caption are null
C16_Witness ==
  /\ sr.fn = "composeEmbeddingText"
  /\ sq.altText = <<>>
  /\ sq.description = NullText
  /\ sq.aiCaption = NullText
  /\ sr.text = <<"a", " ", "|", " ", "e", " ", "f">>

FilenameOnly ==
  /\ sr.fn = "composeEmbeddingText"
  /\ sq.filename = <<"M", "y", "-", "P", "h", "o", "t", "o", "_", "0", "1", ".", "J", "P", "G">>
  /\ ~Present(sq.altText)
  /\ ~Present(sq.description)
  /\ ~Present(sq.aiCaption)
  /\ sq.tagNames = <<>>

\* C17 as stated: My-Photo_01.JPG alone composes to "my photo 01".
C17_FilenameOnlyLowerCase ==
  FilenameOnly => sr.text = <<"m", "y", " ", "p", "h", "o", "t", "o", " ", "0", "1">>

\* C17: My-Photo_01.JPG alone composes to "My Photo 01": the extension is
\* stripped, "-" and "_" become spaces, the case of the letters is kept.
C17_FilenameOnly ==
  FilenameOnly => sr.text = <<"M", "y", " ", "P", "h", "o", "t", "o", " ", "0", "1">>

\* My-Photo_01.JPG was composed with a null altText
C17_Witness == FilenameOnly /\ sq.altText = NullText

\* C18: the stored viewCount of a link with maxViews set never exceeds
\* maxViews, whatever the number and the interleaving of the accesses.
C18_ViewCountWithinLimit ==
  shareLink.maxViews # 0 => shareLink.viewCount <= shareLink.maxViews

\* the step in which generateAssetEmbedding throws after the caption block
ThrowsAfterCaption == consumer.pc \in {"embed", "upsert", "status"} /\ consumer'.pc = "catch"

\* C23: a caption that was saved stays when a later step of the run throws,
\* and the retried run does not call the captioning model again and embeds
\* with the saved caption.
C23_CaptionDurability ==
  /\ [][ThrowsAfterCaption => db' = db]_vars
  /\ [][\A a \in (DOMAIN db) \cap (DOMAIN db') :
          db[a].aiCaption # NULL =>
            /\ db'[a].aiCaption = db[a].aiCaption
            /\ db'[a].aiCaptionModel = db[a].aiCaptionModel]_vars
  /\ [][(consumer.pc = "caption" /\ consumer.asset.aiCaption # NULL) =>
          /\ consumer'.pc \in {"caption", "embed"}
          /\ ~consumer'.captionInvoked
          /\ consumer'.aiCaption = consumer.asset.aiCaption]_vars
  /\ [][(consumer.pc = "upsert" /\ consumer'.pc = "status" /\ consumer.asset.aiCaption # NULL) =>
          \E r \in vectors' : r.id = batch[1].assetId /\ r.withCaption]_vars

\* the second delivery of a message has upserted the vector with the caption
\* the first delivery saved, without calling the captioning model
C23_Witness ==
  /\ consumer.pc = "status"
  /\ batch[1].attempts = 2
  /\ ~consumer.captionInvoked
  /\ ~consumer.hadVector
  /\ consumer.asset.aiCaption = "caption"
  /\ consumer.asset.aiCaptionModel = CAPTION_MODEL
  /\ \E r \in vectors : r.id = batch[1].assetId /\ r.withCaption

\* nothing is running and no message is waiting
Quiescent == caller.op = "idle" /\ consumer.pc = "idle" /\ InFlight = {}

\* C25: when queueEmbedding and the consumer run that handled its message
\* successfully have both finished and no message is in flight, the status
\* of the asset is completed.
C25_RestsCompleted ==
  \A a \in DOMAIN db :
    (Quiescent /\ db[a].embeddedAt # NULL) => StatusOf(db, a) = "completed"

\* C27: the index never gets a vector record for an asset whose row has been
\* deleted, also when the deletion happens while the run is in flight.
C27_NoVectorForDeleted ==
  [][\A a \in used :
       (a \notin DOMAIN db /\ VectorsOf(vectors, a) = {}) => VectorsOf(vectors', a) = {}]_vars

\* C30: every asset of the store whose status is completed has a vector
\* record with its id in the index.
C30_CompletedHasVector ==
  \A a \in DOMAIN db : StatusOf(db, a) = "completed" => VectorsOf(vectors, a) # {}

\* an asset is completed and has its vector after another asset was deleted
C30_Witness ==
  /\ \E a \in DOMAIN db : StatusOf(db, a) = "completed" /\ VectorsOf(vectors, a) # {}
  /\ used # DOMAIN db
  /\ consumer.pc = "idle"

\* the messages the handler is done with in this step
LeavesBatch == {batch[i].mid : i \in 1..Len(batch)} \ {batch'[i].mid : i \in 1..Len(batch')}

HybridMatches == vectorizeQuery(sq.ranking, Min(sq.limit, VECTORIZE_MAX_TOPK))

\* the index returned a as a match whose score is below minScore
BelowMinScore(a) ==
  \E i \in 1..Len(HybridMatches) :
    /\ HybridMatches[i].id = a
    /\ HybridMatches[i].score < orDefault(sq.minScore, HYBRID_MIN_SCORE)

ResultIds == {sr.results[i].id : i \in 1..Len(sr.results)}

ResultOf(a) == sr.results[CHOOSE i \in 1..Len(sr.results) : sr.results[i].id = a]

\* hybridSearch has returned from behind the check of the query
HybridReturned == sr.fn = "hybridSearch" /\ sr.outcome = "returned" /\ ~IsBlank(sq.query)

\* C21 as stated: a match below minScore that the keyword branch finds is
\* in the result with score keywordBoost and type keyword; one that the
\* keyword branch does not find is not in the result.
C21_BelowMinScoreAsClaimed ==
  HybridReturned =>
    \A a \in AssetIds :
      BelowMinScore(a) =>
        IF KeywordMatched(a)
        THEN /\ a \in ResultIds
             /\ EntryOf(a).vectorScore = 0
             /\ ResultOf(a).score = KEYWORD_BOOST
             /\ ResultOf(a).matchType = "keyword"
        ELSE a \notin ResultIds

\* C21: a match below minScore contributes no vectorScore; when the keyword
\* branch finds the asset it is a candidate with vectorScore 0, it is in the
\* result unless the truncation to limit cuts it off, and there it has score
\* keywordBoost and type keyword; when the keyword branch does not find it,
\* it is not in the result.
C21_BelowMinScore ==
  HybridReturned =>
    \A a \in AssetIds :
      BelowMinScore(a) =>
        IF KeywordMatched(a)
        THEN /\ \E i \in 1..Len(sr.scoreMap) : sr.scoreMap[i].id = a
             /\ EntryOf(a).vectorScore = 0
             /\ Len(sr.scoreMap) <= sq.limit => a \in ResultIds
             /\ a \in ResultIds =>
                  /\ ResultOf(a).score = KEYWORD_BOOST
                  /\ ResultOf(a).matchType = "keyword"
        ELSE /\ a \notin ResultIds
             /\ \A i \in 1..Len(sr.scoreMap) : sr.scoreMap[i].id # a

\* a1 came back as a keyword result although the index had matched it with
\* a positive score below the default minScore
C21_Witness ==
  /\ HybridReturned
  /\ sq.minScore = Undefined
  /\ HybridMatches # <<>>
  /\ HybridMatches[1].id = "a1"
  /\ HybridMatches[1].score = 10
  /\ "a1" \in ResultIds
  /\ ResultOf("a1").score = KEYWORD_BOOST
  /\ ResultOf("a1").matchType = "keyword"

\* the scored ids that have a row of the caller's tenant at hydration time
Hydratable(scored) ==
  SelectSeq(scored, LAMBDA e : e.id \in DOMAIN db /\ db[e.id].organizationId = sq.auth)

\* C22: hybridSearch returns, without an error and in the order of the
\* scoring, exactly the scored ids that have a row at hydration time.
C22_HydrationDrops ==
  HybridReturned =>
    LET kept == Hydratable(scoredIdsOf(sq, sr.keywordRows))
    IN  /\ Len(sr.results) = Len(kept)
        /\ \A i \in 1..Len(kept) :
             /\ sr.results[i].id = kept[i].id
             /\ sr.results[i].score = kept[i].score
             /\ sr.results[i].matchType = kept[i].matchType
             /\ sr.results[i].asset = db[kept[i].id]

\* the best scored id has no row any more, the second one came back
C22_Witness ==
  /\ HybridReturned
  /\ Len(scoredIdsOf(sq, sr.keywordRows)) = 2
  /\ scoredIdsOf(sq, sr.keywordRows)[1].id \notin DOMAIN db
  /\ Len(sr.results) = 1
  /\ sr.results[1].id = scoredIdsOf(sq, sr.keywordRows)[2].id

\* what a semantic-only search returns when it asks the index for topK
\* matches and uses defaultMinScore: the matches that reach the score and
\* pass the filters, at most limit of them, hydrated, best score first
SemanticOnly(topK, defaultMinScore) ==
  (sr.fn = "vectorSearch" /\ sr.outcome = "returned" /\ sq.auth # NULL /\ ~IsBlank(sq.query)) =>
    LET matches == vectorizeQuery(sq.ranking, topK)
        kept == SelectSeq(matches,
                          LAMBDA m : /\ m.score >= orDefault(sq.minScore, defaultMinScore)
                                     /\ passesFilters(m, sq.mimeTypePrefix, sq.tagIds))
        first == SubSeq(kept, 1, Min(sq.limit, Len(kept)))
        expected == { [id |-> first[i].id, score |-> first[i].score] :
                        i \in {j \in 1..Len(first) :
                                 /\ first[j].id \in DOMAIN db
                                 /\ db[first[j].id].organizationId = sq.auth} }
    IN  /\ {[id |-> sr.results[i].id, score |-> sr.results[i].score] :
              i \in 1..Len(sr.results)} = expected
        /\ Len(sr.results) = Cardinality(expected)
        /\ \A i \in 1..Len(sr.results) : sr.results[i].matchType = "semantic"
        /\ \A i \in 1..(Len(sr.results) - 1) : sr.results[i].score >= sr.results[i + 1].score

\* C24 as stated: vectorSearch asks for the top min(limit, 50) vectors and
\* keeps the matches with score >= minScore, 0.2 by default.
C24_SameAsSemanticBranch == SemanticOnly(Min(sq.limit, VECTORIZE_MAX_TOPK), HYBRID_MIN_SCORE)

\* C24: vectorSearch asks for the top min(2 * limit, 50) vectors, keeps the
\* matches with score >= minScore, 0.3 by default, that pass the mime type
\* and tag filters, takes the first limit of them and returns their rows
\* sorted by score descending with match type semantic.
C24_VectorSearch == SemanticOnly(Min(2 * sq.limit, VECTORIZE_MAX_TOPK), VECTOR_MIN_SCORE)

\* with limit 1 the result is the second match of the index: the first one
\* did not pass the mime type filter
C24_Witness ==
  /\ sr.fn = "vectorSearch"
  /\ sq.limit = 1
  /\ Len(sq.ranking) = 2
  /\ sq.mimeTypePrefix # <<>>
  /\ ~startsWith(sq.ranking[1].metadata.mimeType, sq.mimeTypePrefix)
  /\ Len(sr.results) = 1
  /\ sr.results[1].id = sq.ranking[2].id
  /\ sr.results[1].matchType = "semantic"

\* the tags of an asset: those its vector metadata lists
TagsOf(a) == Range(jsonParse(MetadataOf(a).tagIds))

\* C29: every asset hybridSearch returns for a request with a mime type
\* prefix has a mime type that starts with it, and every asset it returns
\* for a request with tag ids carries one of these tags.
C29_FiltersOnEveryResult ==
  HybridReturned =>
    \A i \in 1..Len(sr.results) :
      /\ sq.mimeTypePrefix # <<>> =>
           startsWith(sr.results[i].asset.mimeType, sq.mimeTypePrefix)
      /\ sq.tagIds # <<>> =>
           \E j \in 1..Len(sq.tagIds) : sq.tagIds[j] \in TagsOf(sr.results[i].id)

\* C28: every asset a search called with folderId = F returns has folderId
\* = F in the relational store.
C28_FolderFilterCurrent ==
  (sr.fn # "none" /\ sr.outcome = "returned" /\ sq.folderId # NULL) =>
    \A i \in 1..Len(sr.results) :
      /\ sr.results[i].asset.folderId = sq.folderId
      /\ db[sr.results[i].id].folderId = sq.folderId

====
